---------------------------- MODULE Spec2Model ----------------------------
(***************************************************************************)
(* Model of the Electrical Engineering Toolbox of src/funcs.c: the        *)
(* validated input readers (read_int, read_positive_double), the          *)
(* engineering-notation display (print_resistance_value), the result      *)
(* logger (ask_and_save), the resistor colour-code converter              *)
(* (rcc_color_to_resistance, rcc_resistance_to_color) and the menus that  *)
(* drive them.                                                             *)
(*                                                                         *)
(* Text is a sequence of one-character strings.  A double is a decimal    *)
(* [mant, exp] standing for mant * 10^exp, kept normalised (no trailing   *)
(* zero in mant).  Every input of the model has at most a handful of      *)
(* significant decimal digits, for which the comparisons and the rounding *)
(* of the code give the same outcome in binary and in decimal arithmetic. *)
(***************************************************************************)
EXTENDS Integers, Sequences, FiniteSets, TLC

VARIABLES
    pc,        \* the prompt the process is blocked on, or how it ended
    pending,   \* rest of the stdin line that fgets has read only in part
    eof,       \* stdin has reached end of input
    last,      \* the last library call: what it read and how it ended
    b1, b2,    \* rcc_color_to_resistance: digit bands
    m,         \* rcc_color_to_resistance: multiplier index
    t,         \* rcc_color_to_resistance: tolerance index
    R,         \* resistance (both converters)
    rounded,   \* rcc_resistance_to_color: rounded two-digit value
    d1, d2,    \* rcc_resistance_to_color: digits
    mx,        \* rcc_resistance_to_color: its local m, the multiplier exponent
    n, i,      \* module_series_parallel_resistors: count and loop index
    mode,      \* module_rc_charge_discharge: charging or discharging
    display,   \* what print_resistance_value printed last
    summary,   \* char summary[256] handed to ask_and_save
    log        \* lines of calc_log.txt

vars == <<pc, pending, eof, last, b1, b2, m, t, R, rounded, d1, d2, mx, n,
          i, mode, display, summary, log>>

-----------------------------------------------------------------------------
(* Bounds of the model *)

\* most lines the log may hold before the model stops saving
MaxLog == 2
\* largest mantissa of a resistance handed to the converters directly
MaxMant == 999
\* largest decimal exponent of such a resistance
MaxExp == 16
\* largest negated decimal exponent of such a resistance
MaxNegExp == 3

(* Program constants *)

\* char buf[64] of read_int and read_positive_double
BUF_READ == 64
\* char buf[16] of ask_and_save
BUF_SAVE == 16
\* the exponent cap of the normalisation loop
M_CAP == 9
\* largest value of int
INT_MAX == 2147483647
INT_MIN == -INT_MAX - 1

None == "none"

-----------------------------------------------------------------------------
(* Decimal arithmetic standing for double *)

RECURSIVE Pow10(_)
Pow10(k) == IF k <= 0 THEN 1 ELSE 10 * Pow10(k - 1)

Abs(x) == IF x < 0 THEN -x ELSE x

RECURSIVE NumDigits(_)
\* number of decimal digits of x >= 0 (0 has none)
NumDigits(x) == IF x = 0 THEN 0 ELSE 1 + NumDigits(x \div 10)

Dec(mant, exp) == [mant |-> mant, exp |-> exp]

RECURSIVE DNorm(_)
DNorm(d) ==
    IF d.mant = 0 THEN Dec(0, 0)
    ELSE IF d.mant % 10 = 0 THEN DNorm(Dec(d.mant \div 10, d.exp + 1))
    ELSE d

DZero == Dec(0, 0)

\* fabs(d) >= 10^k
DAbsGePow10(d, k) == d.mant # 0 /\ NumDigits(Abs(d.mant)) + d.exp - 1 >= k

\* d >= 10^k
DGePow10(d, k) == d.mant > 0 /\ DAbsGePow10(d, k)

\* d / 10^k
DScale(d, k) == DNorm(Dec(d.mant, d.exp + k))

\* x * d for an integer x
DTimesInt(x, d) == DNorm(Dec(x * d.mant, d.exp))

\* C integer division and remainder (truncation toward zero), b > 0
CDiv(a, b) == IF a >= 0 THEN a \div b ELSE (a + b - 1) \div b
CRem(a, b) == a - b * CDiv(a, b)

\* (int)(d + 0.5) for d >= 0: the outcomes the conversion can have.  A value
\* that does not fit int is undefined behaviour: the conversion instruction
\* yields INT_MIN (x86) or saturates to INT_MAX (ARM).
IntOfPlusHalf(d) ==
    IF d.exp >= 0
    THEN IF d.exp > 9 \/ d.mant > INT_MAX \div Pow10(d.exp)
         THEN {INT_MIN, INT_MAX}
         ELSE {d.mant * Pow10(d.exp)}
    ELSE IF -d.exp > 9
         THEN {0}
         ELSE LET p == Pow10(-d.exp)
                  q == d.mant \div p
                  r == d.mant % p
              IN  {q + (IF 2 * r >= p THEN 1 ELSE 0)}

-----------------------------------------------------------------------------
(* Module 1: band tables *)

\* number of entries of digit_color_names
N_DIGITS == 10
\* number of entries of multiplier_color_names and multiplier_values
N_MULT == 12
\* number of entries of tolerance_color_names
N_TOL == 8

\* silver and gold exchanged
multiplier_values_swapped ==
    <<Dec(1, 0), Dec(1, 1), Dec(1, 2), Dec(1, 3), Dec(1, 4), Dec(1, 5),
      Dec(1, 6), Dec(1, 7), Dec(1, 8), Dec(1, 9), Dec(1, -2), Dec(1, -1)>>

\* multiplier_values[k] is multiplier_values[k + 1] here
multiplier_values ==
    <<Dec(1, 0), Dec(1, 1), Dec(1, 2), Dec(1, 3), Dec(1, 4), Dec(1, 5),
      Dec(1, 6), Dec(1, 7), Dec(1, 8), Dec(1, 9), Dec(1, -1), Dec(1, -2)>>

(* print_resistance_value: the arguments of its printf, the value shown and
   the unit *)

\* the sign is not dropped before the comparison
print_resistance_value_signed(r) ==
    IF DGePow10(r, 6) THEN [disp |-> DScale(r, -6), unit |-> "Mohm"]
    ELSE IF DGePow10(r, 3) THEN [disp |-> DScale(r, -3), unit |-> "kohm"]
    ELSE [disp |-> r, unit |-> "ohm"]

print_resistance_value(r) ==
    IF DAbsGePow10(r, 6) THEN [disp |-> DScale(r, -6), unit |-> "Mohm"]
    ELSE IF DAbsGePow10(r, 3) THEN [disp |-> DScale(r, -3), unit |-> "kohm"]
    ELSE [disp |-> r, unit |-> "ohm"]

(* rcc_color_to_resistance: the computation *)

color_to_resistance(x1, x2, k) ==
    DTimesInt(x1 * 10 + x2, multiplier_values[k + 1])

(* rcc_resistance_to_color: the computation *)

RECURSIVE normalize_down(_, _)
\* while (base >= 100 && m < 9) { base /= 10; m++; }
normalize_down(base, k) ==
    IF DGePow10(base, 2) /\ k < M_CAP
    THEN normalize_down(DScale(base, -1), k + 1)
    ELSE [base |-> base, m |-> k]

RECURSIVE normalize_up_unguarded(_, _)
\* the exponent is let below 0
normalize_up_unguarded(base, k) ==
    IF ~DGePow10(base, 1)
    THEN normalize_up_unguarded(DScale(base, 1), k - 1)
    ELSE [base |-> base, m |-> k]

RECURSIVE normalize_up(_, _)
\* while (base < 10 && m > 0) { base *= 10; m--; }
normalize_up(base, k) ==
    IF ~DGePow10(base, 1) /\ k > 0
    THEN normalize_up(DScale(base, 1), k - 1)
    ELSE [base |-> base, m |-> k]

\* the carry of the rounding left out
round_and_split_no_carry(k, r) ==
    [rounded |-> r, d1 |-> CDiv(r, 10), d2 |-> CRem(r, 10), m |-> k]

\* rounded = r; if (rounded >= 100) { rounded = 10; m++; } d1, d2
round_and_split(k, r) ==
    LET carry == r >= 100
        r2    == IF carry THEN 10 ELSE r
    IN  [rounded |-> r2, d1 |-> CDiv(r2, 10), d2 |-> CRem(r2, 10),
         m |-> IF carry THEN k + 1 ELSE k]

\* every outcome of the conversion of a resistance r > 0
resistance_to_color(r) ==
    LET a == normalize_down(r, 0)
        b == normalize_up(a.base, a.m)
    IN  {round_and_split(b.m, x) : x \in IntOfPlusHalf(b.base)}

\* digit_color_names[d1], digit_color_names[d2], multiplier_color_names[m]
\* are reads inside the tables
lookups_in_bounds(o) ==
    /\ o.d1 \in 0..(N_DIGITS - 1)
    /\ o.d2 \in 0..(N_DIGITS - 1)
    /\ o.m \in 0..(N_MULT - 1)

-----------------------------------------------------------------------------
(* Text, and the conversions of the C library as far as decimal literals go
   (no "inf", "nan" or hexadecimal literal is typed in this model, and no
   literal is long enough to overflow long) *)

DigitChars == <<"0", "1", "2", "3", "4", "5", "6", "7", "8", "9">>

IsDigit(c) == \E k \in 1..10 : DigitChars[k] = c
DigitVal(c) == (CHOOSE k \in 1..10 : DigitChars[k] = c) - 1

\* isspace
IsSpace(c) == c \in {" ", "\t", "\n", "\r", "\f"}

RECURSIVE SkipWhile(_, _, _)
\* the first index from k on whose character is not in cs (Len + 1 if none)
SkipWhile(buf, k, cs) ==
    IF k <= Len(buf) /\ buf[k] \in cs THEN SkipWhile(buf, k + 1, cs) ELSE k

RECURSIVE DigitsEnd(_, _)
DigitsEnd(buf, k) ==
    IF k <= Len(buf) /\ IsDigit(buf[k]) THEN DigitsEnd(buf, k + 1) ELSE k

RECURSIVE DigitsValue(_, _, _)
\* the number written by buf[a..b]
DigitsValue(buf, a, b) ==
    IF b < a THEN 0 ELSE DigitsValue(buf, a, b - 1) * 10 + DigitVal(buf[b])

IsSign(buf, k) == k <= Len(buf) /\ buf[k] \in {"+", "-"}
SignAt(buf, k) == IF k <= Len(buf) /\ buf[k] = "-" THEN -1 ELSE 1

\* the digits of an integer literal from ds on, after a sign of value sg
strtol_digits(buf, sg, ds, de) ==
    IF de = ds THEN [val |-> 0, end |-> 0]
    ELSE [val |-> sg * DigitsValue(buf, ds, de - 1), end |-> de - 1]

strtol_signed(buf, s) ==
    IF IsSign(buf, s)
    THEN strtol_digits(buf, SignAt(buf, s), s + 1, DigitsEnd(buf, s + 1))
    ELSE strtol_digits(buf, 1, s, DigitsEnd(buf, s))

\* strtol(buf, &endptr, 10): the value and the number of characters used
\* (0: endptr == buf)
strtol(buf) ==
    strtol_signed(buf, SkipWhile(buf, 1, {" ", "\t", "\n", "\r", "\f"}))

\* the exponent part of a literal whose mantissa ends before fe: it counts
\* only if a digit follows the e and its sign
strtod_exponent(buf, mant, nFrac, fe, eds, ee) ==
    IF ee > eds
    THEN [val |-> DNorm(Dec(mant, SignAt(buf, fe + 1)
                                  * DigitsValue(buf, eds, ee - 1) - nFrac)),
          end |-> ee - 1]
    ELSE [val |-> DNorm(Dec(mant, -nFrac)), end |-> fe - 1]

strtod_tail(buf, mant, nFrac, fe) ==
    IF fe <= Len(buf) /\ buf[fe] \in {"e", "E"}
    THEN IF IsSign(buf, fe + 1)
         THEN strtod_exponent(buf, mant, nFrac, fe, fe + 2,
                              DigitsEnd(buf, fe + 2))
         ELSE strtod_exponent(buf, mant, nFrac, fe, fe + 1,
                              DigitsEnd(buf, fe + 1))
    ELSE [val |-> DNorm(Dec(mant, -nFrac)), end |-> fe - 1]

\* the fraction buf[ie + 1 .. fe - 1] after the integer part buf[ds .. ie - 1]
strtod_fraction(buf, sg, ds, ie, fe) ==
    IF (ie - ds) + (fe - ie - 1) = 0 THEN [val |-> DZero, end |-> 0]
    ELSE strtod_tail(buf,
                     sg * (DigitsValue(buf, ds, ie - 1) * Pow10(fe - ie - 1)
                           + DigitsValue(buf, ie + 1, fe - 1)),
                     fe - ie - 1, fe)

strtod_mantissa(buf, sg, ds, ie) ==
    IF ie <= Len(buf) /\ buf[ie] = "."
    THEN strtod_fraction(buf, sg, ds, ie, DigitsEnd(buf, ie + 1))
    ELSE IF ie = ds THEN [val |-> DZero, end |-> 0]
    ELSE strtod_tail(buf, sg * DigitsValue(buf, ds, ie - 1), 0, ie)

strtod_signed(buf, s) ==
    IF IsSign(buf, s)
    THEN strtod_mantissa(buf, SignAt(buf, s), s + 1, DigitsEnd(buf, s + 1))
    ELSE strtod_mantissa(buf, 1, s, DigitsEnd(buf, s))

\* strtod(buf, &endptr): digits, an optional fraction, an optional exponent
strtod(buf) ==
    strtod_signed(buf, SkipWhile(buf, 1, {" ", "\t", "\n", "\r", "\f"}))

\* while (*endptr == ' ' || *endptr == '\t') endptr++;
\* if (*endptr != '\n' && *endptr != '\0') reject
TrailingJunk(buf, end) ==
    LET j == SkipWhile(buf, end + 1, {" ", "\t"})
    IN  j <= Len(buf) /\ buf[j] # "\n"

\* one attempt of read_int on the text fgets delivered
read_int_check(buf, min, max) ==
    LET r == strtol(buf)
    IN  IF r.end = 0 THEN [outcome |-> "no_number", val |-> 0]
        ELSE IF TrailingJunk(buf, r.end)
        THEN [outcome |-> "trailing", val |-> r.val]
        ELSE IF r.val < min \/ r.val > max
        THEN [outcome |-> "range", val |-> r.val]
        ELSE [outcome |-> "ok", val |-> r.val]

\* one attempt of read_positive_double on the text fgets delivered
read_positive_double_check(buf) ==
    LET r == strtod(buf)
    IN  IF r.end = 0 THEN [outcome |-> "no_number", val |-> DZero]
        ELSE IF TrailingJunk(buf, r.end)
        THEN [outcome |-> "trailing", val |-> r.val]
        ELSE IF r.val.mant <= 0
        THEN [outcome |-> "range", val |-> r.val]
        ELSE [outcome |-> "ok", val |-> r.val]

RECURSIVE FirstNewline(_, _)
\* index of the first newline of src from k on, 0 if there is none
FirstNewline(src, k) ==
    IF k > Len(src) THEN 0
    ELSE IF src[k] = "\n" THEN k
    ELSE FirstNewline(src, k + 1)

\* fgets(buf, size, stdin) on the unread text src: at most size - 1
\* characters, stopping after a newline
fgets(src, size) ==
    LET nl == FirstNewline(src, 1)
        k  == IF nl # 0 /\ nl <= size - 1 THEN nl
              ELSE IF Len(src) < size - 1 THEN Len(src) ELSE size - 1
    IN  [chunk |-> SubSeq(src, 1, k), rest |-> SubSeq(src, k + 1, Len(src))]

-----------------------------------------------------------------------------
(* What the user types.  A line is typed in answer to the prompt that is
   showing; what fgets leaves of it stays on stdin for whatever reads next. *)

NL == <<"\n">>

RECURSIVE IntText(_)
IntText(x) ==
    IF x < 10 THEN <<DigitChars[x + 1]>>
    ELSE IntText(x \div 10) \o <<DigitChars[(x % 10) + 1]>>

Rep(c, k) == [j \in 1..k |-> c]

IntPrompts ==
    {"main_select", "rcc_select", "c2r_b1", "c2r_b2", "c2r_m", "c2r_t",
     "sp_n", "sp_mode", "rc_mode", "ohm_choice", "sig_select", "sine_N",
     "log_select"}

DoublePrompts ==
    {"r2c_R", "sp_R", "rc_R", "rc_C", "rc_t", "rc_V", "ohm_first",
     "ohm_second", "sig_f", "sine_f", "sine_A", "sine_fs"}

SavePrompts ==
    {"c2r_save", "r2c_save", "sp_save", "rc_save", "ohm_save", "sig_save",
     "sine_save"}

\* the selections typed at each integer prompt
Selections(p) ==
    CASE p = "main_select" -> 0..6
      [] p = "rcc_select" -> 0..3
      [] p = "c2r_b1" -> {4}
      [] p = "c2r_b2" -> {7}
      [] p = "c2r_m" -> {2}
      [] p = "c2r_t" -> {6}
      [] p = "sp_n" -> {1, 2}
      [] p = "sp_mode" -> {1, 2}
      [] p = "rc_mode" -> {1, 2}
      [] p = "ohm_choice" -> 1..6
      [] p = "sig_select" -> 0..2
      [] p = "sine_N" -> {100}
      [] p = "log_select" -> 0..2

\* the prompts at which the user of this model has the result saved
SavedPrompts == {"c2r_save", "r2c_save"}

\* 4700, 99.6e9 and 1e30
ResistanceTexts ==
    {<<"4", "7", "0", "0">>, <<"9", "9", ".", "6", "e", "9">>,
     <<"1", "e", "3", "0">>}

\* the answer typed most often at a prompt
Primary(p) ==
    IF p \in IntPrompts
    THEN IntText(CHOOSE x \in Selections(p) : \A y \in Selections(p) : x <= y)
    ELSE IF p \in DoublePrompts THEN <<"4", "7", "0", "0">>
    ELSE IF p \in SavedPrompts THEN <<"y">>
    ELSE <<"n">>

\* lines that hold a valid answer (at a confirmation: that confirm)
GoodTexts(p) ==
    IF p \in IntPrompts
    THEN {IntText(x) : x \in Selections(p)}
         \cup {<<" ">> \o Primary(p) \o <<" ", "\t">>}
    ELSE IF p = "r2c_R" THEN ResistanceTexts
    ELSE IF p \in DoublePrompts THEN {<<"4", "7", "0", "0">>, <<"1", "e", "-", "6">>}
    ELSE IF p \in SavedPrompts THEN {<<"y">>, <<"Y">>, <<"y", "e", "s">>}
    ELSE {}

\* abc, 4a, -1, 101, an empty line; 0 at a prompt for a positive number; n
\* and " y" at the confirmation
OtherTexts(p) ==
    IF p \in IntPrompts
    THEN {<<"a", "b", "c">>, <<"4", "a">>, <<"-", "1">>, <<"1", "0", "1">>,
          <<>>}
    ELSE IF p \in DoublePrompts
    THEN {<<"a", "b", "c">>, <<"4", ".", "7", "k">>, <<"-", "1">>, <<"0">>}
    ELSE {<<"n">>, <<" ", "y">>, <<>>}

\* lines longer than the buffer that reads them: a run of letters that fills
\* it, followed by what would be a valid answer to a prompt
LongTexts(p) ==
    IF p \in SavePrompts
    THEN {Rep(Primary(p)[1], BUF_SAVE - 1) \o <<"0">>}
    ELSE {Rep("a", BUF_READ - 1) \o Primary(p)}

\* a typed line ends with a newline, unless the input ends right after it
Answers(p) ==
    {x \o NL : x \in GoodTexts(p) \cup OtherTexts(p) \cup LongTexts(p)}
    \cup {Primary(p)}

\* what one call of fgets with a buffer of the given size can deliver
Reads(size) ==
    IF pending # <<>>
    THEN {[null |-> FALSE, line |-> last.line, eof |-> eof] @@ fgets(pending, size)}
    ELSE IF eof
    THEN {[null |-> TRUE, line |-> <<>>, eof |-> TRUE, chunk |-> <<>>, rest |-> <<>>]}
    ELSE {[null |-> TRUE, line |-> <<>>, eof |-> TRUE, chunk |-> <<>>, rest |-> <<>>]}
         \cup {[null |-> FALSE, line |-> a, eof |-> a[Len(a)] # "\n"] @@ fgets(a, size)
               : a \in Answers(pc)}

-----------------------------------------------------------------------------
(* The state outside a calculation *)

NoCall == [op |-> None, line |-> <<>>, chunk |-> <<>>, outcome |-> None,
           val |-> 0, min |-> 0, max |-> 0]

LocalsCleared ==
    /\ b1 = 0 /\ b2 = 0 /\ m = 0 /\ t = 0
    /\ R = DZero /\ rounded = 0 /\ d1 = 0 /\ d2 = 0 /\ mx = 0
    /\ n = 0 /\ i = 0 /\ mode = 0
    /\ summary = None

ioVars == <<pending, eof, last, log>>
c2rVars == <<b1, b2, m, t>>
r2cVars == <<rounded, d1, d2, mx>>
otherVars == <<n, i, mode>>

-----------------------------------------------------------------------------
(* The converters and the display applied to given values: every band
   selection the readers can return, and resistances of up to three
   significant digits over the decades MaxNegExp below to MaxExp above one *)

\* (a parameter keeps the set from being built where it is not used)
Resistances(maxMant) ==
    {DNorm(Dec(k, e)) : k \in 1..maxMant, e \in (-MaxNegExp)..MaxExp}

Values(maxMant) ==
    {DZero} \cup Resistances(maxMant)
    \cup {Dec(-r.mant, r.exp) : r \in Resistances(maxMant)}

InitCalc ==
    /\ pc \in {"bands_given", "resistance_given", "value_given"}
    /\ b1 \in IF pc = "bands_given" THEN 0..(N_DIGITS - 1) ELSE {0}
    /\ b2 \in IF pc = "bands_given" THEN 0..(N_DIGITS - 1) ELSE {0}
    /\ m \in IF pc = "bands_given" THEN 0..(N_MULT - 1) ELSE {0}
    /\ R \in CASE pc = "bands_given" -> {DZero}
               [] pc = "resistance_given" -> Resistances(MaxMant)
               [] pc = "value_given" -> Values(MaxMant)
    /\ t = 0 /\ rounded = 0 /\ d1 = 0 /\ d2 = 0 /\ mx = 0
    /\ n = 0 /\ i = 0 /\ mode = 0
    /\ display = None /\ summary = None
    /\ pending = <<>> /\ eof = FALSE /\ last = NoCall /\ log = <<>>

\* base = b1 * 10 + b2; R = base * multiplier_values[m]; print_resistance_value(R)
ApplyColorToResistance ==
    /\ pc = "bands_given"
    /\ R' = color_to_resistance(b1, b2, m)
    /\ display' = print_resistance_value(R')
    /\ pc' = "encoded"
    /\ UNCHANGED <<ioVars, c2rVars, r2cVars, otherVars, summary>>

\* the normalisation, rounding and digit split of a resistance that is given,
\* or that ApplyColorToResistance computed (the round trip)
ApplyResistanceToColor ==
    /\ pc \in {"resistance_given", "encoded"}
    /\ R.mant > 0
    /\ \E o \in resistance_to_color(R) :
        /\ rounded' = o.rounded
        /\ d1' = o.d1
        /\ d2' = o.d2
        /\ mx' = o.m
    /\ display' = print_resistance_value(R)
    /\ pc' = IF pc = "encoded" THEN "round_trip" ELSE "decoded"
    /\ UNCHANGED <<ioVars, c2rVars, R, otherVars, summary>>

ApplyPrintResistanceValue ==
    /\ pc = "value_given"
    /\ display' = print_resistance_value(R)
    /\ pc' = "shown"
    /\ UNCHANGED <<ioVars, c2rVars, R, r2cVars, otherVars, summary>>

NextCalc ==
    \/ ApplyColorToResistance
    \/ ApplyResistanceToColor
    \/ ApplyPrintResistanceValue

SpecCalc == InitCalc /\ [][NextCalc]_vars

-----------------------------------------------------------------------------
(* Properties of the converters and the display, checked under SpecCalc *)

Decoded == pc \in {"decoded", "round_trip"}

\* C2 as stated: the conversion of 996 yields digit1 = 1, digit2 = 0 and
\* multiplier exponent 3.
C2_AsStated ==
    (pc = "decoded" /\ R = Dec(996, 0)) => (d1 = 1 /\ d2 = 0 /\ mx = 3)

\* C2 amended: the conversion of 996 normalises to base 99.6 at exponent 1,
\* rounds to 100, carries to 10 and yields digit1 = 1, digit2 = 0 and
\* multiplier exponent 2 (10 x 100 = 1000).
C2_Carry996 ==
    (pc = "decoded" /\ R = Dec(996, 0)) =>
        /\ normalize_down(R, 0) = [base |-> Dec(996, -1), m |-> 1]
        /\ IntOfPlusHalf(Dec(996, -1)) = {100}
        /\ rounded = 10 /\ d1 = 1 /\ d2 = 0 /\ mx = 2

C2_Witness == pc = "decoded" /\ R = Dec(996, 0) /\ rounded = 10

C4_ExponentCapped == Decoded => mx <= M_CAP

\* C5: for digit1 in 1..9, digit2 in 0..9 and multiplier index m in 0..11,
\* converting R = (digit1*10 + digit2) * multiplier_values[m] back yields
\* exactly (digit1, digit2, m), and those bands encode R again.
C5_RoundTrip ==
    (pc = "round_trip" /\ b1 >= 1) =>
        /\ d1 = b1 /\ d2 = b2 /\ mx = m
        /\ color_to_resistance(d1, d2, mx) = R

\* the value of multiplier index k by the rule of the band table: 10^k for k
\* in 0..9, one tenth for 10 and one hundredth for 11
IsBaseTimesMultiplier(r, base, k) ==
    CASE k \in 0..9 -> r = DNorm(Dec(base, k))
      [] k = 10 -> DScale(r, 1) = DNorm(Dec(base, 0))
      [] k = 11 -> DScale(r, 2) = DNorm(Dec(base, 0))

\* C6: for all digit1, digit2 in 0..9 and multiplier index in 0..11 the
\* resistance computed is (digit1*10 + digit2) times 10^index for index
\* 0..9, times 0.1 for index 10 and times 0.01 for index 11, and it is
\* never negative.
C6_Encode ==
    pc = "encoded" =>
        /\ IsBaseTimesMultiplier(R, b1 * 10 + b2, m)
        /\ R.mant >= 0

C6_Witness == pc = "encoded" /\ b1 = 4 /\ b2 = 7 /\ m = 11 /\ R = Dec(47, -2)

\* |d| >= 10^k, by comparing integers
AbsAtLeastPow10(d, k) ==
    IF d.exp >= k THEN d.mant # 0
    ELSE IF k - d.exp > 9 THEN FALSE
    ELSE Abs(d.mant) >= Pow10(k - d.exp)

\* C9: the unit is mega with the value divided by 1e6 when |value| >= 1e6,
\* otherwise kilo with the value divided by 1e3 when |value| >= 1e3,
\* otherwise the base unit with the value itself.
C9_ThreeTiers ==
    pc = "shown" =>
        IF AbsAtLeastPow10(R, 6)
        THEN display.unit = "Mohm" /\ DScale(display.disp, 6) = R
        ELSE IF AbsAtLeastPow10(R, 3)
        THEN display.unit = "kohm" /\ DScale(display.disp, 3) = R
        ELSE display.unit = "ohm" /\ display.disp = R

C9_Witness ==
    /\ pc = "shown" /\ R = Dec(47, 2)
    /\ display = [disp |-> Dec(47, -1), unit |-> "kohm"]

-----------------------------------------------------------------------------
(* The program.  An action is one call of fgets together with everything the
   code does with what it read, up to the next prompt.  Printed text is not
   kept, except the arguments of print_resistance_value's printf (display)
   and of the snprintf that fills summary.  The numeric results of modules
   2 to 5 (quotients, exp, sqrt, sin) are outside the decimal arithmetic and
   are left out of their summaries. *)

\* lines calc_log.txt may hold when the program starts
OldLine == [kind |-> "earlier run"]

Init ==
    /\ pc = "main_select"
    /\ pending = <<>> /\ eof = FALSE /\ last = NoCall
    /\ LocalsCleared
    /\ display = None
    /\ log \in {<<>>, <<OldLine>>}

progVars == <<b1, b2, m, t, R, rounded, d1, d2, mx, n, i, mode, display,
              summary, log>>

\* the record of a call: the line typed, the part of it fgets delivered, how
\* the call ended and, for read_int, the range asked for and the value parsed
Call(op, rd, outcome, val, min, max) ==
    [op |-> op, line |-> rd.line, chunk |-> rd.chunk, outcome |-> outcome,
     val |-> val, min |-> min, max |-> max]

\* if (!fgets(buf, sizeof(buf), stdin)) { printf(...); exit(1); }
InputError(op, rd) ==
    /\ pc' = "exit_1"
    /\ eof' = TRUE
    /\ last' = Call(op, rd, "eof", 0, 0, 0)
    /\ UNCHANGED <<pending, progVars>>

\* read_int(prompt, min, max) at the prompt that is showing: one attempt on
\* the text rd that fgets delivers; a rejected attempt prompts again
read_int(rd, min, max) ==
    IF rd.null THEN InputError("read_int", rd)
    ELSE LET c == read_int_check(rd.chunk, min, max)
         IN  /\ pending' = rd.rest
             /\ eof' = rd.eof
             /\ last' = Call("read_int", rd, c.outcome, c.val, min, max)
             /\ IF c.outcome = "ok" THEN TRUE
                ELSE UNCHANGED <<pc, progVars>>

\* read_positive_double(prompt) at the prompt that is showing: one attempt
read_positive_double(rd) ==
    IF rd.null THEN InputError("read_positive_double", rd)
    ELSE LET c == read_positive_double_check(rd.chunk)
         IN  /\ pending' = rd.rest
             /\ eof' = rd.eof
             /\ last' = Call("read_positive_double", rd, c.outcome, c.val,
                             0, 0)
             /\ IF c.outcome = "ok" THEN TRUE
                ELSE UNCHANGED <<pc, progVars>>

\* the attempt returned a value to its caller
Returned == last'.outcome = "ok"

\* the function that was running returns to the menu loop that called it
ReturnTo(p) ==
    /\ pc' = p
    /\ b1' = 0 /\ b2' = 0 /\ m' = 0 /\ t' = 0
    /\ R' = DZero /\ rounded' = 0 /\ d1' = 0 /\ d2' = 0 /\ mx' = 0
    /\ n' = 0 /\ i' = 0 /\ mode' = 0
    /\ display' = None /\ summary' = None

Goto(p) == pc' = p /\ UNCHANGED progVars

(* ask_and_save *)

\* buf[0] == 'y' || buf[0] == 'Y'
confirms(buf) == buf[1] \in {"y", "Y"}

\* fopen(LOG_FILENAME, "w"): the file is truncated first
append_line_truncating(file, text) == <<text>>

\* fopen(LOG_FILENAME, "a"); fprintf(fp, "%s\n", summary); fclose(fp)
append_line(file, text) == Append(file, text)

\* the loop that called the function whose calculation is being saved
Caller(p) ==
    CASE p \in {"c2r_save", "r2c_save"} -> "rcc_select"
      [] p \in {"sig_save", "sine_save"} -> "sig_select"
      [] OTHER -> "main_select"

ask_and_save ==
    /\ pc \in SavePrompts
    /\ \E rd \in Reads(BUF_SAVE), canOpen \in BOOLEAN :
        /\ eof' = rd.eof
        /\ IF rd.null
           THEN /\ last' = Call("ask_and_save", rd, "eof", 0, 0, 0)
                /\ UNCHANGED <<pending, log>>
           ELSE /\ pending' = rd.rest
                /\ IF confirms(rd.chunk)
                   THEN IF canOpen
                        THEN /\ Len(log) < MaxLog
                             /\ log' = append_line(log, summary)
                             /\ last' = Call("ask_and_save", rd, "saved", 0, 0, 0)
                        ELSE /\ last' = Call("ask_and_save", rd, "cannot_open", 0, 0, 0)
                             /\ UNCHANGED log
                   ELSE /\ canOpen
                        /\ last' = Call("ask_and_save", rd, "not_saved", 0, 0, 0)
                        /\ UNCHANGED log
        /\ ReturnTo(Caller(pc))

(* toolbox_main_menu *)

main_dispatch(choice) ==
    IF choice = 0 THEN ReturnTo("returned") /\ UNCHANGED log
    ELSE Goto(CASE choice = 1 -> "rcc_select"
                [] choice = 2 -> "sp_n"
                [] choice = 3 -> "rc_R"
                [] choice = 4 -> "ohm_choice"
                [] choice = 5 -> "sig_select"
                [] choice = 6 -> "log_select")

toolbox_main_menu ==
    /\ pc = "main_select"
    /\ \E rd \in Reads(BUF_READ) :
          /\ read_int(rd, 0, 6)
          /\ Returned => main_dispatch(last'.val)

(* module_resistor_color_code *)

rcc_dispatch(c) ==
    CASE c = 1 -> Goto("c2r_b1")
      [] c = 2 -> Goto("r2c_R")
      [] c = 3 -> Goto("rcc_select")
      [] c = 0 -> ReturnTo("main_select") /\ UNCHANGED log

module_resistor_color_code ==
    /\ pc = "rcc_select"
    /\ \E rd \in Reads(BUF_READ) :
          /\ read_int(rd, 0, 3)
          /\ Returned => rcc_dispatch(last'.val)

(* rcc_color_to_resistance *)

tolerance_values_str ==
    <<"1%", "2%", "0.5%", "0.25%", "0.1%", "0.05%", "5%", "10%">>

c2r_set_b1(v) ==
    /\ b1' = v
    /\ pc' = "c2r_b2"
    /\ UNCHANGED <<b2, m, t, R, r2cVars, otherVars, display, summary, log>>

c2r_set_b2(v) ==
    /\ b2' = v
    /\ pc' = "c2r_m"
    /\ UNCHANGED <<b1, m, t, R, r2cVars, otherVars, display, summary, log>>

c2r_set_m(v) ==
    /\ m' = v
    /\ pc' = "c2r_t"
    /\ UNCHANGED <<b1, b2, t, R, r2cVars, otherVars, display, summary, log>>

c2r_compute(v) ==
    /\ t' = v
    /\ R' = color_to_resistance(b1, b2, m)
    /\ display' = print_resistance_value(R')
    /\ summary' = [kind |-> "Color->Resistance", b1 |-> b1, b2 |-> b2,
                   m |-> m, t |-> v, R |-> R',
                   tol |-> tolerance_values_str[v + 1]]
    /\ pc' = "c2r_save"
    /\ UNCHANGED <<b1, b2, m, r2cVars, otherVars, log>>

rcc_color_to_resistance_band1 ==
    /\ pc = "c2r_b1"
    /\ \E rd \in Reads(BUF_READ) :
          /\ read_int(rd, 0, 9)
          /\ Returned => c2r_set_b1(last'.val)

rcc_color_to_resistance_band2 ==
    /\ pc = "c2r_b2"
    /\ \E rd \in Reads(BUF_READ) :
          /\ read_int(rd, 0, 9)
          /\ Returned => c2r_set_b2(last'.val)

rcc_color_to_resistance_multiplier ==
    /\ pc = "c2r_m"
    /\ \E rd \in Reads(BUF_READ) :
          /\ read_int(rd, 0, 11)
          /\ Returned => c2r_set_m(last'.val)

rcc_color_to_resistance_tolerance ==
    /\ pc = "c2r_t"
    /\ \E rd \in Reads(BUF_READ) :
          /\ read_int(rd, 0, 7)
          /\ Returned => c2r_compute(last'.val)

(* rcc_resistance_to_color *)

\* An index outside digit_color_names is a read outside the array: the
\* process is killed by the fault, or the read and the printf of what it
\* found go through.
r2c_convert(v) ==
    /\ R' = v
    /\ display' = print_resistance_value(v)
    /\ \E o \in resistance_to_color(v) :
        /\ rounded' = o.rounded
        /\ d1' = o.d1
        /\ d2' = o.d2
        /\ mx' = o.m
        /\ \/ /\ summary' = [kind |-> "Resistance->Color", R |-> v,
                             d1 |-> o.d1, d2 |-> o.d2, m |-> o.m]
              /\ pc' = "r2c_save"
           \/ /\ ~lookups_in_bounds(o)
              /\ summary' = None
              /\ pc' = "crashed"
    /\ UNCHANGED <<c2rVars, otherVars, log>>

rcc_resistance_to_color ==
    /\ pc = "r2c_R"
    /\ \E rd \in Reads(BUF_READ) :
          /\ read_positive_double(rd)
          /\ Returned => r2c_convert(last'.val)

(* module_series_parallel_resistors.  The sum of the inverses of finite
   positive values is not 0.0, so the "Math error" return is not taken. *)

sp_set_n(v) ==
    /\ n' = v
    /\ i' = 0
    /\ pc' = "sp_R"
    /\ UNCHANGED <<c2rVars, R, r2cVars, mode, display, summary, log>>

sp_next_R(v) ==
    /\ i' = i + 1
    /\ pc' = IF i + 1 < n THEN "sp_R" ELSE "sp_mode"
    /\ UNCHANGED <<c2rVars, R, r2cVars, n, mode, display, summary, log>>

sp_compute(v) ==
    /\ summary' = [kind |-> "Series/Parallel", n |-> n,
                   mode |-> IF v = 1 THEN "series" ELSE "parallel"]
    /\ pc' = "sp_save"
    /\ UNCHANGED <<c2rVars, R, r2cVars, otherVars, display, log>>

module_series_parallel_resistors_count ==
    /\ pc = "sp_n"
    /\ \E rd \in Reads(BUF_READ) :
          /\ read_int(rd, 1, 10)
          /\ Returned => sp_set_n(last'.val)

module_series_parallel_resistors_value ==
    /\ pc = "sp_R"
    /\ \E rd \in Reads(BUF_READ) :
          /\ read_positive_double(rd)
          /\ Returned => sp_next_R(last'.val)

module_series_parallel_resistors_mode ==
    /\ pc = "sp_mode"
    /\ \E rd \in Reads(BUF_READ) :
          /\ read_int(rd, 1, 2)
          /\ Returned => sp_compute(last'.val)

(* module_rc_charge_discharge *)

rc_next(v) ==
    Goto(CASE pc = "rc_R" -> "rc_C"
           [] pc = "rc_C" -> "rc_mode"
           [] pc = "rc_t" -> "rc_V")

rc_set_mode(v) ==
    /\ mode' = v
    /\ pc' = "rc_t"
    /\ UNCHANGED <<c2rVars, R, r2cVars, n, i, display, summary, log>>

rc_compute(v) ==
    /\ summary' = [kind |-> IF mode = 1 THEN "RC charge" ELSE "RC discharge"]
    /\ pc' = "rc_save"
    /\ UNCHANGED <<c2rVars, R, r2cVars, otherVars, display, log>>

module_rc_charge_discharge_value ==
    /\ pc \in {"rc_R", "rc_C", "rc_t"}
    /\ \E rd \in Reads(BUF_READ) :
          /\ read_positive_double(rd)
          /\ Returned => rc_next(last'.val)

module_rc_charge_discharge_mode ==
    /\ pc = "rc_mode"
    /\ \E rd \in Reads(BUF_READ) :
          /\ read_int(rd, 1, 2)
          /\ Returned => rc_set_mode(last'.val)

module_rc_charge_discharge_voltage ==
    /\ pc = "rc_V"
    /\ \E rd \in Reads(BUF_READ) :
          /\ read_positive_double(rd)
          /\ Returned => rc_compute(last'.val)

(* module_ohm_and_power: every case of the switch reads two values *)

ohm_chosen(choice) == Goto("ohm_first")

ohm_first_read(v) == Goto("ohm_second")

ohm_compute(v) ==
    /\ summary' = [kind |-> "Ohm/Power"]
    /\ pc' = "ohm_save"
    /\ UNCHANGED <<c2rVars, R, r2cVars, otherVars, display, log>>

module_ohm_and_power_choice ==
    /\ pc = "ohm_choice"
    /\ \E rd \in Reads(BUF_READ) :
          /\ read_int(rd, 1, 6)
          /\ Returned => ohm_chosen(last'.val)

module_ohm_and_power_first ==
    /\ pc = "ohm_first"
    /\ \E rd \in Reads(BUF_READ) :
          /\ read_positive_double(rd)
          /\ Returned => ohm_first_read(last'.val)

module_ohm_and_power_second ==
    /\ pc = "ohm_second"
    /\ \E rd \in Reads(BUF_READ) :
          /\ read_positive_double(rd)
          /\ Returned => ohm_compute(last'.val)

(* module_signal_generation *)

sig_dispatch(choice) ==
    CASE choice = 1 -> Goto("sig_f")
      [] choice = 2 -> Goto("sine_f")
      [] choice = 0 -> ReturnTo("main_select") /\ UNCHANGED log

sig_compute(v) ==
    /\ summary' = [kind |-> "Signal"]
    /\ pc' = "sig_save"
    /\ UNCHANGED <<c2rVars, R, r2cVars, otherVars, display, log>>

sine_next(v) ==
    Goto(CASE pc = "sine_f" -> "sine_A"
           [] pc = "sine_A" -> "sine_fs"
           [] pc = "sine_fs" -> "sine_N")

sine_compute(v) ==
    /\ summary' = [kind |-> "Sine", N |-> v]
    /\ pc' = "sine_save"
    /\ UNCHANGED <<c2rVars, R, r2cVars, otherVars, display, log>>

module_signal_generation_select ==
    /\ pc = "sig_select"
    /\ \E rd \in Reads(BUF_READ) :
          /\ read_int(rd, 0, 2)
          /\ Returned => sig_dispatch(last'.val)

module_signal_generation_frequency ==
    /\ pc = "sig_f"
    /\ \E rd \in Reads(BUF_READ) :
          /\ read_positive_double(rd)
          /\ Returned => sig_compute(last'.val)

module_signal_generation_sine_value ==
    /\ pc \in {"sine_f", "sine_A", "sine_fs"}
    /\ \E rd \in Reads(BUF_READ) :
          /\ read_positive_double(rd)
          /\ Returned => sine_next(last'.val)

module_signal_generation_sine_samples ==
    /\ pc = "sine_N"
    /\ \E rd \in Reads(BUF_READ) :
          /\ read_int(rd, 1, 100)
          /\ Returned => sine_compute(last'.val)

(* module_file_save_and_log *)

\* 1 echoes the file, 2 truncates it (unless it cannot be opened), 0 goes back
log_dispatch(choice) ==
    CASE choice = 1 -> Goto("log_select")
      [] choice = 2 -> /\ \E canOpen \in BOOLEAN :
                            log' = IF canOpen THEN <<>> ELSE log
                       /\ UNCHANGED <<pc, c2rVars, R, r2cVars, otherVars,
                                      display, summary>>
      [] choice = 0 -> ReturnTo("main_select") /\ UNCHANGED log

module_file_save_and_log ==
    /\ pc = "log_select"
    /\ \E rd \in Reads(BUF_READ) :
          /\ read_int(rd, 0, 2)
          /\ Returned => log_dispatch(last'.val)

Next ==
    \/ toolbox_main_menu
    \/ module_resistor_color_code
    \/ rcc_color_to_resistance_band1
    \/ rcc_color_to_resistance_band2
    \/ rcc_color_to_resistance_multiplier
    \/ rcc_color_to_resistance_tolerance
    \/ rcc_resistance_to_color
    \/ module_series_parallel_resistors_count
    \/ module_series_parallel_resistors_value
    \/ module_series_parallel_resistors_mode
    \/ module_rc_charge_discharge_value
    \/ module_rc_charge_discharge_mode
    \/ module_rc_charge_discharge_voltage
    \/ module_ohm_and_power_choice
    \/ module_ohm_and_power_first
    \/ module_ohm_and_power_second
    \/ module_signal_generation_select
    \/ module_signal_generation_frequency
    \/ module_signal_generation_sine_value
    \/ module_signal_generation_sine_samples
    \/ module_file_save_and_log
    \/ ask_and_save

Spec == Init /\ [][Next]_vars

-----------------------------------------------------------------------------
(* Properties of the readers, the logger and the process, checked under
   Spec *)

\* a typed line that holds an integer, nothing but white space after it, and
\* a value within min..max
LineValid(line, min, max) ==
    LET r == strtol(line)
    IN  /\ r.end > 0
        /\ \A j \in (r.end + 1)..Len(line) : IsSpace(line[j])
        /\ r.val >= min /\ r.val <= max

\* C1: an attempt of read_int rejects the line typed when it holds no
\* integer, has other than white space after the integer or a value outside
\* [min, max]; read_int returns the value of the first line that passes, and
\* never a value outside [min, max].
C1_ReadInt ==
    (last.op = "read_int" /\ last.outcome # "eof") =>
        /\ (last.outcome = "ok") <=> LineValid(last.line, last.min, last.max)
        /\ last.outcome = "ok" =>
              /\ last.val = strtol(last.line).val
              /\ last.val >= last.min /\ last.val <= last.max

Terminated == pc \in {"exit_1", "crashed"}

\* C7: the process is terminated exactly when read_int or
\* read_positive_double finds the input at its end; end of input at the
\* confirmation of ask_and_save and a log file that cannot be opened only
\* skip the save and give control back to the calling module.
C7_OnlyInputErrorTerminates ==
    /\ Terminated <=>
          /\ last.op \in {"read_int", "read_positive_double"}
          /\ last.outcome = "eof"
    /\ Terminated => pc = "exit_1"
    /\ (last.op = "ask_and_save" /\ last.outcome \in {"eof", "cannot_open"}) =>
          pc \in {"main_select", "rcc_select", "sig_select"}

\* the text delivered at the confirmation, without the newline that ends it
Response(call) ==
    IF call.chunk # <<>> /\ call.chunk[Len(call.chunk)] = "\n"
    THEN SubSeq(call.chunk, 1, Len(call.chunk) - 1)
    ELSE call.chunk

\* C8 as stated: ask_and_save appends exactly one line, the summary, at the
\* end of the log and leaves the earlier lines unchanged when the response
\* is y or Y; for any other response, no input included, the log is left
\* unchanged.
C8_AsStated ==
    [][(pc \in SavePrompts) =>
          (IF last'.outcome # "eof" /\ Response(last') \in {<<"y">>, <<"Y">>}
           THEN log' = log \o <<summary>>
           ELSE log' = log)]_vars

\* C8 amended: ask_and_save appends exactly one line, the summary, at the
\* end of the log and leaves the earlier lines unchanged when the text it
\* reads at the confirmation begins with y or Y and the log file can be
\* opened; in every other case (another first character, no input, a log
\* file that cannot be opened) the log is left unchanged.
C8_AppendOnConfirm ==
    [][(pc \in SavePrompts) =>
          (IF /\ last'.outcome # "eof"
              /\ last'.chunk[1] \in {"y", "Y"}
              /\ last'.outcome # "cannot_open"
           THEN log' = log \o <<summary>>
           ELSE log' = log)]_vars

C8_Witness ==
    /\ last.op = "ask_and_save" /\ last.outcome = "saved"
    /\ last.chunk = <<"y", "e", "s", "\n">>
    /\ Len(log) = 2 /\ log[1] = OldLine /\ log[2].kind = "Color->Resistance"

\* C10: every attempt of read_int or read_positive_double and every
\* confirmation of ask_and_save takes one whole typed line off the input:
\* what it reads is the line typed, and nothing of that line is left for a
\* later prompt or attempt.
C10_WholeLine ==
    (last.op # None /\ last.outcome # "eof") =>
        /\ last.chunk = last.line
        /\ pending = <<>>

\* C11: every band-table lookup is inside its table: in
\* rcc_color_to_resistance the indices read are in 0..9, 0..9, 0..11 and
\* 0..7, and in rcc_resistance_to_color, for every resistance R > 0, the
\* digits computed are in 0..9 and the multiplier index in 0..11 when they
\* index digit_color_names and multiplier_color_names.
C11_LookupsInBounds ==
    /\ pc = "c2r_save" =>
          /\ b1 \in 0..(N_DIGITS - 1) /\ b2 \in 0..(N_DIGITS - 1)
          /\ m \in 0..(N_MULT - 1) /\ t \in 0..(N_TOL - 1)
    /\ (pc \in {"r2c_save", "crashed"} /\ R.mant > 0) =>
          /\ d1 \in 0..(N_DIGITS - 1) /\ d2 \in 0..(N_DIGITS - 1)
          /\ mx \in 0..(N_MULT - 1)

=============================================================================
